---- MODULE Spec2Model ----
(***************************************************************************)
(* pyglet.model: the decoder resolution protocol of load() and the batch   *)
(* and transform bookkeeping of Model (src/pyglet/model/__init__.py).       *)
(*                                                                         *)
(* Spec       one call of load(filename, file, decoder, batch)              *)
(* SpecModel  one Model under rotation/translation/batch setters and draw   *)
(***************************************************************************)
EXTENDS Integers, Sequences, FiniteSets, TLC

\* ------------------------------------------------------------- bounds
MaxDecoders == 3
MaxPrio == 2
FileLen == 2
MaxParts == 2
NumBatches == 2
MaxFresh == 2
NumTextures == 2
NumTargets == 2
NumMaterials == 2
NumParents == 1
HashMod == 7

VARIABLES pc, streams, file, explicit, openFails, ncand, idx,
          first_exception, attempts, result,
          vertex_lists, groups, _batch, _rotation, _translation,
          vlists, fresh, assigned, lastOp,
          gattrs, gl, cur, phase, saved, lastCmp

loadVars == <<pc, streams, file, explicit, openFails, ncand, idx,
              first_exception, attempts, result>>
modelVars == <<vertex_lists, groups, _batch, _rotation, _translation,
               vlists, fresh, assigned, lastOp>>
drawVars == <<gattrs, gl, cur, phase, saved, lastCmp>>
vars == <<loadVars, modelVars, drawVars>>

\* ------------------------------------------------------------- streams
\* The bytes of the file on disk, or of the stream the caller supplies.
Data == [i \in 1..FileLen |-> i]

Min(a, b) == IF a < b THEN a ELSE b

\* What a reader at the stream's position still has before it.
Remaining(s) == SubSeq(s.data, s.pos + 1, Len(s.data))

\* file.read(k): the position advances by k, at most to the end.
Read(s, k) == [s EXCEPT !.pos = Min(s.pos + k, Len(s.data))]

\* file.seek(0) in the except branch of the fallback loop.
SeekKeep(s) == s
Seek0(s) == [s EXCEPT !.pos = 0]

\* file.close() of the finally clause.
CloseNot(s) == s
Close(s) == [s EXCEPT !.closes = @ + 1]

NoStream == [exists |-> FALSE, given |-> FALSE, seekable |-> FALSE,
             data |-> <<>>, pos |-> 0, closes |-> 0]

\* open(filename, 'rb'): a seekable handle at offset 0.
OpenFile == [exists |-> TRUE, given |-> FALSE, seekable |-> TRUE,
             data |-> Data, pos |-> 0, closes |-> 0]

\* BytesIO(file.read()): the rest of the supplied stream, at offset 0.
BytesIO(s) == [exists |-> TRUE, given |-> FALSE, seekable |-> TRUE,
               data |-> Remaining(s), pos |-> 0, closes |-> 0]

\* A stream the caller passes as `file`, at whatever position it has.
Supplied(seekable, p) == [exists |-> TRUE, given |-> TRUE, seekable |-> seekable,
                          data |-> Data, pos |-> p, closes |-> 0]

\* ------------------------------------------------------------- exceptions
NoExc == [type |-> "none", src |-> 0, prio |-> 0]
DecodeExc(d, p) == [type |-> "decode", src |-> d, prio |-> p]
OtherExc(d) == [type |-> "other", src |-> d, prio |-> 0]
NoDecodersExc == [type |-> "nodecoders", src |-> 0, prio |-> 0]
IOExc == [type |-> "io", src |-> 0, prio |-> 0]

NoResult == [kind |-> "none", by |-> 0, exc |-> NoExc]
Returned(d) == [kind |-> "model", by |-> d, exc |-> NoExc]
Raised(e) == [kind |-> "exc", by |-> e.src, exc |-> e]

\* The explicit decoder is decoder 0; get_decoders' candidates are 1..ncand.
ExplicitDecoder == 0

\* if (not first_exception or first_exception.exception_priority < e.exception_priority)
RetainLast(first, e) == IF first.type = "none" \/ first.prio <= e.prio THEN e ELSE first
Retain(first, e) == IF first.type = "none" \/ first.prio < e.prio THEN e ELSE first

\* if not first_exception: raise ModelDecodeException('No decoders ...'); raise first_exception
AfterLoopNoDecoders(first) == NoDecodersExc
AfterLoop(first) == IF first.type = "none" THEN NoDecodersExc ELSE first

\* One decode attempt as the history keeps it: the decoder, what it found
\* (position, remaining bytes, closes so far) and how it ended.
Attempt(d, s, out, p, k) ==
    [dec |-> d, start |-> s.pos, saw |-> Remaining(s), closes |-> s.closes,
     out |-> out, prio |-> p, read |-> Min(k, Len(s.data) - s.pos)]

\* ------------------------------------------------------------- Model (fixed in Spec)
\* None where a Batch is expected; batches are 1, 2, ...
NoBatch == 0
GL_TRIANGLES == "triangles"

NoOp == [op |-> "none", arg |-> NoBatch, old |-> NoBatch, raised |-> FALSE,
         aborted |-> FALSE, migrated |-> <<>>, drawn |-> <<>>]
NoAssign == [new |-> NoBatch, old |-> NoBatch]

ModelIdle ==
    /\ vertex_lists = <<>> /\ groups = <<>> /\ _batch = NoBatch
    /\ _rotation = <<0, 0, 0>> /\ _translation = <<0, 0, 0>>
    /\ vlists = <<>> /\ fresh = 0
    /\ assigned = NoAssign
    /\ lastOp = NoOp

\* ------------------------------------------------------------- GL state (fixed in Spec, SpecModel)
\* 4x4 matrices, row by row.
Identity == <<<<1, 0, 0, 0>>, <<0, 1, 0, 0>>, <<0, 0, 1, 0>>, <<0, 0, 0, 1>>>>

NoProgram == "none"
GL_TEXTURE0 == 0
Units == {GL_TEXTURE0, GL_TEXTURE0 + 1}
Targets == 1..NumTargets

\* Nothing bound: no program in use, no texture on any target of any unit.
GLDefault(unit) ==
    [unit |-> unit, tex |-> [b \in Units \X Targets |-> 0],
     program |-> NoProgram, view |-> Identity]

NoCmp == [done |-> FALSE, a |-> 0, b |-> 0, eq |-> FALSE, ha |-> 0, hb |-> 0]

DrawIdle ==
    /\ gattrs = <<>>
    /\ gl = GLDefault(GL_TEXTURE0)
    /\ cur = 0 /\ phase = "unset"
    /\ saved = GLDefault(GL_TEXTURE0)
    /\ lastCmp = NoCmp

LoadIdle ==
    /\ pc = "idle"
    /\ streams = [handle |-> NoStream, buffer |-> NoStream]
    /\ file = "none" /\ explicit = FALSE /\ openFails = FALSE
    /\ ncand = 0 /\ idx = 0
    /\ first_exception = NoExc /\ attempts = <<>> /\ result = NoResult

\* ------------------------------------------------------------- load
Init ==
    /\ pc = "call"
    /\ \/ \E sk \in BOOLEAN, p \in 0..FileLen :
             /\ streams = [handle |-> Supplied(sk, p), buffer |-> NoStream]
             /\ openFails = FALSE
       \/ /\ streams = [handle |-> NoStream, buffer |-> NoStream]
          /\ openFails \in BOOLEAN
    /\ file = "none"
    /\ explicit \in BOOLEAN
    /\ ncand \in 0..MaxDecoders
    /\ idx = 0
    /\ first_exception = NoExc
    /\ attempts = <<>>
    /\ result = NoResult
    /\ ModelIdle
    /\ DrawIdle

\* lines 116-120: open the file when none is given; buffer it when it cannot seek.
Open ==
    /\ pc = "call"
    /\ IF ~streams.handle.exists /\ openFails
       THEN /\ pc' = "raised"
            /\ result' = Raised(IOExc)
            /\ UNCHANGED <<streams, file>>
       ELSE LET h == IF streams.handle.exists THEN streams.handle ELSE OpenFile
            IN  /\ IF h.seekable
                   THEN /\ streams' = [streams EXCEPT !.handle = h]
                        /\ file' = "handle"
                   ELSE /\ streams' = [handle |-> Read(h, Len(h.data)),
                                       buffer |-> BytesIO(h)]
                        /\ file' = "buffer"
                /\ pc' = "try"
                /\ UNCHANGED result
    /\ UNCHANGED <<explicit, openFails, ncand, idx, first_exception, attempts>>
    /\ UNCHANGED <<modelVars, drawVars>>

\* (variant) a failing explicit decoder falls back to the candidates.
ExplicitDecodeFallsBack ==
    /\ pc = "try" /\ explicit
    /\ \E k \in 0..FileLen :
         \/ /\ attempts' = Append(attempts, Attempt(ExplicitDecoder, streams[file], "ok", 0, k))
            /\ result' = Returned(ExplicitDecoder)
            /\ pc' = "returned"
            /\ streams' = [streams EXCEPT ![file] = Close(Read(@, k))]
            /\ UNCHANGED <<idx, first_exception>>
         \/ \E p \in 1..MaxPrio :
            /\ attempts' = Append(attempts, Attempt(ExplicitDecoder, streams[file], "decode", p, k))
            /\ first_exception' = DecodeExc(ExplicitDecoder, p)
            /\ idx' = 1
            /\ pc' = "loop"
            /\ streams' = [streams EXCEPT ![file] = Seek0(Read(@, k))]
            /\ UNCHANGED result
    /\ UNCHANGED <<file, explicit, openFails, ncand>>
    /\ UNCHANGED <<modelVars, drawVars>>

\* lines 123-124 and 140-141: the explicit decoder alone, then the finally clause.
ExplicitDecode ==
    /\ pc = "try" /\ explicit
    /\ \E k \in 0..FileLen :
         \/ /\ attempts' = Append(attempts, Attempt(ExplicitDecoder, streams[file], "ok", 0, k))
            /\ result' = Returned(ExplicitDecoder)
            /\ pc' = "returned"
            /\ streams' = [streams EXCEPT ![file] = Close(Read(@, k))]
         \/ \E p \in 1..MaxPrio :
            /\ attempts' = Append(attempts, Attempt(ExplicitDecoder, streams[file], "decode", p, k))
            /\ result' = Raised(DecodeExc(ExplicitDecoder, p))
            /\ pc' = "raised"
            /\ streams' = [streams EXCEPT ![file] = Close(Read(@, k))]
         \/ /\ attempts' = Append(attempts, Attempt(ExplicitDecoder, streams[file], "other", 0, k))
            /\ result' = Raised(OtherExc(ExplicitDecoder))
            /\ pc' = "raised"
            /\ streams' = [streams EXCEPT ![file] = Close(Read(@, k))]
    /\ UNCHANGED <<file, explicit, openFails, ncand, idx, first_exception>>
    /\ UNCHANGED <<modelVars, drawVars>>

\* lines 125-127: no explicit decoder, enter the loop over get_decoders(filename).
EnterLoop ==
    /\ pc = "try" /\ ~explicit
    /\ pc' = "loop"
    /\ idx' = 1
    /\ first_exception' = NoExc
    /\ UNCHANGED <<streams, file, explicit, openFails, ncand, attempts, result>>
    /\ UNCHANGED <<modelVars, drawVars>>

\* (variant) a successful decode does not end the loop.
CandidateSucceedsGoesOn(k) ==
    /\ attempts' = Append(attempts, Attempt(idx, streams[file], "ok", 0, k))
    /\ result' = Returned(idx)
    /\ streams' = [streams EXCEPT ![file] = Seek0(Read(@, k))]
    /\ idx' = idx + 1
    /\ UNCHANGED <<pc, first_exception>>

\* lines 129-130, 140-141: the candidate decodes; load returns its Model.
CandidateSucceeds(k) ==
    /\ attempts' = Append(attempts, Attempt(idx, streams[file], "ok", 0, k))
    /\ result' = Returned(idx)
    /\ pc' = "returned"
    /\ streams' = [streams EXCEPT ![file] = Close(Read(@, k))]
    /\ UNCHANGED <<idx, first_exception>>

\* (variant) the loop steps over the candidate after a failed one.
CandidateFailsSkipsNext(k, p) ==
    /\ attempts' = Append(attempts, Attempt(idx, streams[file], "decode", p, k))
    /\ first_exception' = Retain(first_exception, DecodeExc(idx, p))
    /\ streams' = [streams EXCEPT ![file] = Seek0(Read(@, k))]
    /\ idx' = idx + 2
    /\ UNCHANGED <<pc, result>>

\* lines 131-135: a ModelDecodeException is ranked, the stream rewound, the loop goes on.
CandidateFails(k, p) ==
    /\ attempts' = Append(attempts, Attempt(idx, streams[file], "decode", p, k))
    /\ first_exception' = Retain(first_exception, DecodeExc(idx, p))
    /\ streams' = [streams EXCEPT ![file] = Seek0(Read(@, k))]
    /\ idx' = idx + 1
    /\ UNCHANGED <<pc, result>>

\* (variant) the except clause catches every exception.
CandidateRaisesSwallowed(k) ==
    /\ attempts' = Append(attempts, Attempt(idx, streams[file], "other", 0, k))
    /\ first_exception' = Retain(first_exception, OtherExc(idx))
    /\ streams' = [streams EXCEPT ![file] = Seek0(Read(@, k))]
    /\ idx' = idx + 1
    /\ UNCHANGED <<pc, result>>

\* lines 129, 140-141: any other error leaves the loop through the finally clause.
CandidateRaises(k) ==
    /\ attempts' = Append(attempts, Attempt(idx, streams[file], "other", 0, k))
    /\ result' = Raised(OtherExc(idx))
    /\ pc' = "raised"
    /\ streams' = [streams EXCEPT ![file] = Close(Read(@, k))]
    /\ UNCHANGED <<idx, first_exception>>

CandidateDecode ==
    /\ pc = "loop" /\ idx <= ncand
    /\ \E k \in 0..FileLen :
         \/ CandidateSucceeds(k)
         \/ \E p \in 1..MaxPrio : CandidateFails(k, p)
         \/ CandidateRaises(k)
    /\ UNCHANGED <<file, explicit, openFails, ncand>>
    /\ UNCHANGED <<modelVars, drawVars>>

\* lines 137-141: the loop ran out of candidates.
Exhausted ==
    /\ pc = "loop" /\ idx > ncand
    /\ result' = Raised(AfterLoop(first_exception))
    /\ pc' = "raised"
    /\ streams' = [streams EXCEPT ![file] = Close(@)]
    /\ UNCHANGED <<file, explicit, openFails, ncand, idx, first_exception, attempts>>
    /\ UNCHANGED <<modelVars, drawVars>>

Next ==
    \/ Open
    \/ ExplicitDecode
    \/ EnterLoop
    \/ CandidateDecode
    \/ Exhausted

Spec == Init /\ [][Next]_vars

\* load is synchronous, single-threaded code: a call that can take a step takes it.
SpecLive == Spec /\ WF_vars(Next)

\* ------------------------------------------------------------- Model
RotationValues == {<<0, 0, 0>>, <<90, 0, 0>>, <<90, 180, 270>>}
TranslationValues == {<<0, 0, 0>>, <<1, 2, 3>>}

\* BaseMaterialGroup.__init__: a new group has rotation and translation 0, 0, 0.
NewGroup == [rotation |-> <<0, 0, 0>>, translation |-> <<0, 0, 0>>]

\* Model.__init__(vertex_lists, groups, batch): n parts, group i for vertex
\* list i, all in the batch given (None when the caller gives none).
InitModel ==
    /\ LoadIdle
    /\ DrawIdle
    /\ \E n \in 0..MaxParts, b \in {NoBatch} \cup (1..NumBatches) :
         /\ vertex_lists = [i \in 1..n |-> i]
         /\ groups = [i \in 1..n |-> NewGroup]
         /\ vlists = [i \in 1..n |-> [batch |-> b, group |-> i, mode |-> GL_TRIANGLES]]
         /\ _batch = b
    /\ _rotation = <<0, 0, 0>>
    /\ _translation = <<0, 0, 0>>
    /\ fresh = 0
    /\ assigned = NoAssign
    /\ lastOp = NoOp

\* Batch.migrate(vlist, mode, group, batch): the vertex list moves into `batch`,
\* under `group` and `mode`.
Migrate(vls, i, mode, g, batch) ==
    [vls EXCEPT ![i] = [batch |-> batch, group |-> g, mode |-> mode]]

\* zip(self.groups, self.vertex_lists): pairs of the same index.
Zip == 1..Min(Len(groups), Len(vertex_lists))

\* (variant) the setter leaves every group as it was.
SetRotationModelOnly(values) ==
    /\ _rotation' = values
    /\ lastOp' = [NoOp EXCEPT !.op = "rotation"]
    /\ UNCHANGED <<groups, vertex_lists, _batch, _translation, vlists, fresh, assigned>>
    /\ UNCHANGED <<loadVars, drawVars>>

\* lines 201-205: rotation setter.
SetRotation(values) ==
    /\ _rotation' = values
    /\ groups' = [i \in 1..Len(groups) |-> [groups[i] EXCEPT !.rotation = values]]
    /\ lastOp' = [NoOp EXCEPT !.op = "rotation"]
    /\ UNCHANGED <<vertex_lists, _batch, _translation, vlists, fresh, assigned>>
    /\ UNCHANGED <<loadVars, drawVars>>

\* lines 211-215: translation setter.
SetTranslation(values) ==
    /\ _translation' = values
    /\ groups' = [i \in 1..Len(groups) |-> [groups[i] EXCEPT !.translation = values]]
    /\ lastOp' = [NoOp EXCEPT !.op = "translation"]
    /\ UNCHANGED <<vertex_lists, _batch, _rotation, vlists, fresh, assigned>>
    /\ UNCHANGED <<loadVars, drawVars>>

\* (variant) the setter migrates without comparing the batch with the current one.
SetBatchAlwaysMigrates(batch) ==
    /\ batch # NoBatch /\ _batch # NoBatch
    /\ vlists' = [i \in 1..Len(vlists) |->
                     IF i \in Zip THEN Migrate(vlists, i, GL_TRIANGLES, i, batch)[i]
                     ELSE vlists[i]]
    /\ _batch' = batch
    /\ assigned' = [new |-> batch, old |-> _batch]
    /\ lastOp' = [NoOp EXCEPT !.op = "batch", !.arg = batch, !.old = _batch,
                              !.migrated = [i \in Zip |->
                                  [vl |-> vertex_lists[i], mode |-> GL_TRIANGLES,
                                   group |-> i, from |-> _batch, to |-> batch]]]
    /\ UNCHANGED <<vertex_lists, groups, _rotation, _translation, fresh>>
    /\ UNCHANGED <<loadVars, drawVars>>

\* (variant) the setter hands its vertex lists over and forgets them.
SetBatchConsumesLists(batch) ==
    /\ batch # NoBatch /\ _batch # NoBatch /\ batch # _batch
    /\ vlists' = <<>>
    /\ vertex_lists' = <<>>
    /\ _batch' = batch
    /\ assigned' = [new |-> batch, old |-> _batch]
    /\ lastOp' = [NoOp EXCEPT !.op = "batch", !.arg = batch, !.old = _batch]
    /\ UNCHANGED <<groups, _rotation, _translation, fresh>>
    /\ UNCHANGED <<loadVars, drawVars>>

\* lines 184-195: batch setter. graphics.Batch() gives the next unused batch;
\* with self._batch None, self._batch.migrate raises AttributeError.
SetBatch(batch) ==
    /\ batch = NoBatch => fresh < MaxFresh
    /\ IF _batch = batch
       THEN /\ lastOp' = [NoOp EXCEPT !.op = "batch", !.arg = batch, !.old = _batch]
            /\ UNCHANGED <<_batch, vlists, fresh, assigned>>
       ELSE LET new == IF batch = NoBatch THEN NumBatches + fresh + 1 ELSE batch
                calls == [i \in Zip |->
                            [vl |-> vertex_lists[i], mode |-> GL_TRIANGLES, group |-> i,
                             from |-> _batch, to |-> new]]
            IN  /\ fresh' = IF batch = NoBatch THEN fresh + 1 ELSE fresh
                /\ assigned' = IF batch = NoBatch THEN NoAssign
                                ELSE [new |-> batch, old |-> _batch]
                /\ IF _batch = NoBatch /\ Zip # {}
                   THEN /\ lastOp' = [NoOp EXCEPT !.op = "batch", !.arg = batch,
                                                  !.old = _batch, !.raised = TRUE]
                        /\ UNCHANGED <<_batch, vlists>>
                   ELSE /\ vlists' = [i \in 1..Len(vlists) |->
                                        IF i \in Zip
                                        THEN Migrate(vlists, i, GL_TRIANGLES, i, new)[i]
                                        ELSE vlists[i]]
                        /\ _batch' = new
                        /\ lastOp' = [NoOp EXCEPT !.op = "batch", !.arg = batch,
                                                  !.old = _batch, !.migrated = calls]
    /\ UNCHANGED <<vertex_lists, groups, _rotation, _translation>>
    /\ UNCHANGED <<loadVars, drawVars>>

\* lines 192-195 when the k-th migrate call raises: the loop has no handler, so
\* the vertex lists before k are in the new batch and line 195 is not reached.
SetBatchMigrateRaises(batch, k) ==
    /\ _batch # NoBatch /\ batch # _batch
    /\ batch = NoBatch => fresh < MaxFresh
    /\ k \in Zip
    /\ LET new == IF batch = NoBatch THEN NumBatches + fresh + 1 ELSE batch
       IN  /\ vlists' = [i \in 1..Len(vlists) |->
                            IF i \in Zip /\ i < k
                            THEN Migrate(vlists, i, GL_TRIANGLES, i, new)[i]
                            ELSE vlists[i]]
           /\ lastOp' = [NoOp EXCEPT !.op = "batch", !.arg = batch, !.old = _batch,
                                     !.aborted = TRUE,
                                     !.migrated = [i \in 1..(k - 1) |->
                                         [vl |-> vertex_lists[i], mode |-> GL_TRIANGLES,
                                          group |-> i, from |-> _batch, to |-> new]]]
    /\ fresh' = IF batch = NoBatch THEN fresh + 1 ELSE fresh
    /\ assigned' = NoAssign
    /\ UNCHANGED <<_batch, vertex_lists, groups, _rotation, _translation>>
    /\ UNCHANGED <<loadVars, drawVars>>

\* lines 217-223: draw. With self._batch None, self._batch.draw_subset raises
\* AttributeError.
Draw ==
    /\ IF _batch = NoBatch
       THEN lastOp' = [NoOp EXCEPT !.op = "draw", !.raised = TRUE]
       ELSE lastOp' = [NoOp EXCEPT !.op = "draw",
                                   !.drawn = <<[batch |-> _batch, lists |-> vertex_lists]>>]
    /\ UNCHANGED <<vertex_lists, groups, _batch, _rotation, _translation, vlists,
                   fresh, assigned>>
    /\ UNCHANGED <<loadVars, drawVars>>

NextModel ==
    \/ \E values \in RotationValues : SetRotation(values)
    \/ \E values \in TranslationValues : SetTranslation(values)
    \/ \E batch \in {NoBatch} \cup (1..NumBatches) : SetBatch(batch)
    \/ \E batch \in {NoBatch} \cup (1..NumBatches), k \in 1..MaxParts :
           SetBatchMigrateRaises(batch, k)
    \/ Draw

SpecModel == InitModel /\ [][NextModel]_vars

\* ------------------------------------------------------------- groups
\* TexturedMaterialGroup(material, texture) and MaterialGroup(material). The
\* parent is None (0) after construction; it is a plain attribute.
TexturedGroup(material, id, target, parent) ==
    [variant |-> "textured", material |-> material,
     texture |-> [id |-> id, target |-> target], parent |-> parent]
UntexturedGroup(material, parent) ==
    [variant |-> "untextured", material |-> material,
     texture |-> [id |-> 0, target |-> 0], parent |-> parent]

GroupObjects(materials, parents) ==
    {TexturedGroup(m, t, g, q) : m \in materials, t \in 1..NumTextures,
                                 g \in Targets, q \in parents}
    \cup {UntexturedGroup(m, q) : m \in materials, q \in parents}

\* hash() of a tuple of integers: a function of its components alone.
RECURSIVE TupleHash(_)
TupleHash(t) ==
    IF t = <<>> THEN 1
    ELSE (31 * TupleHash(SubSeq(t, 1, Len(t) - 1)) + t[Len(t)]) % HashMod

\* (variant) groups of one material and texture compare equal.
GroupEqByValue(a, b) ==
    /\ a.variant = b.variant /\ a.material = b.material /\ a.texture = b.texture

\* lines 325-326, 380-381: __eq__ returns False.
GroupEq(a, b) == FALSE

\* lines 328-329: hash((id(self.parent), self.texture.id, self.texture.target));
\* lines 383-384: hash((id(self.parent))), the hash of the integer itself.
GroupHash(g) ==
    IF g.variant = "textured"
    THEN TupleHash(<<g.parent, g.texture.id, g.texture.target>>)
    ELSE g.parent % HashMod

\* Two groups drawn from every material, texture and parent.
InitGroups ==
    /\ LoadIdle
    /\ ModelIdle
    /\ gattrs \in [1..2 -> GroupObjects(1..NumMaterials, 0..NumParents)]
    /\ gl = GLDefault(GL_TEXTURE0)
    /\ cur = 0 /\ phase = "unset"
    /\ saved = GLDefault(GL_TEXTURE0)
    /\ lastCmp = NoCmp

\* a == b, hash(a), hash(b) for groups a and b (a may be b).
Compare(a, b) ==
    /\ lastCmp' = [done |-> TRUE, a |-> a, b |-> b,
                   eq |-> GroupEq(gattrs[a], gattrs[b]),
                   ha |-> GroupHash(gattrs[a]), hb |-> GroupHash(gattrs[b])]
    /\ UNCHANGED <<gattrs, gl, cur, phase, saved>>
    /\ UNCHANGED <<loadVars, modelVars>>

NextGroups == \E a \in 1..2, b \in 1..2 : Compare(a, b)

SpecGroups == InitGroups /\ [][NextGroups]_vars

\* ------------------------------------------------------------- set_state / unset_state
\* Mat4 product a @ b.
Dot(a, b, i, j) ==
    a[i][1] * b[1][j] + a[i][2] * b[2][j] + a[i][3] * b[3][j] + a[i][4] * b[4][j]
MatRow(a, b, i) == <<Dot(a, b, i, 1), Dot(a, b, i, 2), Dot(a, b, i, 3), Dot(a, b, i, 4)>>
MatMul(a, b) == <<MatRow(a, b, 1), MatRow(a, b, 2), MatRow(a, b, 3), MatRow(a, b, 4)>>

\* math.radians on the angles used here (multiples of 90 degrees), in units of
\* pi/2; cosine and sine of such an angle.
Radians(deg) == deg \div 90
Cos(q) == CASE q % 4 = 0 -> 1 [] q % 4 = 2 -> -1 [] OTHER -> 0
Sin(q) == CASE q % 4 = 1 -> 1 [] q % 4 = 3 -> -1 [] OTHER -> 0

\* The rotation by angle q about one axis.
RotationMatrix(q, axis) ==
    LET c == Cos(q)
        sn == Sin(q)
    IN  CASE axis = "x" -> <<<<1, 0, 0, 0>>, <<0, c, -sn, 0>>, <<0, sn, c, 0>>, <<0, 0, 0, 1>>>>
          [] axis = "y" -> <<<<c, 0, sn, 0>>, <<0, 1, 0, 0>>, <<-sn, 0, c, 0>>, <<0, 0, 0, 1>>>>
          [] axis = "z" -> <<<<c, -sn, 0, 0>>, <<sn, c, 0, 0>>, <<0, 0, 1, 0>>, <<0, 0, 0, 1>>>>

\* Mat4().rotate(angle, x=1) and its y and z forms: the matrix times the rotation.
Rotate(m, q, axis) == MatMul(m, RotationMatrix(q, axis))

\* Mat4.from_translation(x, y, z).
FromTranslation(t) ==
    <<<<1, 0, 0, t[1]>>, <<0, 1, 0, t[2]>>, <<0, 0, 1, t[3]>>, <<0, 0, 0, 1>>>>

\* (variant) the factors multiplied in the opposite order.
ModelViewMatrixReversed(rotation, translation) ==
    LET translate == FromTranslation(translation)
        rotate_x == Rotate(Identity, Radians(rotation[1]), "x")
        rotate_y == Rotate(Identity, Radians(rotation[2]), "y")
        rotate_z == Rotate(Identity, Radians(rotation[3]), "z")
    IN  MatMul(MatMul(MatMul(translate, rotate_x), rotate_y), rotate_z)

\* lines 255-259: view = rotate_z @ rotate_y @ rotate_x @ translate.
ModelViewMatrix(rotation, translation) ==
    LET translate == FromTranslation(translation)
        rotate_x == Rotate(Identity, Radians(rotation[1]), "x")
        rotate_y == Rotate(Identity, Radians(rotation[2]), "y")
        rotate_z == Rotate(Identity, Radians(rotation[3]), "z")
    IN  MatMul(MatMul(MatMul(rotate_z, rotate_y), rotate_x), translate)

\* lines 253-262: the matrix is written into the WindowBlock view.
SetModelviewMatrix(g, rotation, translation) ==
    [g EXCEPT !.view = ModelViewMatrix(rotation, translation)]

\* The _default_program of the group's class (lines 310, 371).
ProgramOf(a) == IF a.variant = "textured" THEN "textured" ELSE "material"

\* lines 316-320: TexturedMaterialGroup.set_state.
TexturedSetState(g, a, rotation, translation) ==
    SetModelviewMatrix(
        [g EXCEPT !.unit = GL_TEXTURE0,
                  !.tex[<<GL_TEXTURE0, a.texture.target>>] = a.texture.id,
                  !.program = ProgramOf(a)],
        rotation, translation)

\* lines 322-323: TexturedMaterialGroup.unset_state.
TexturedUnsetState(g, a) == [g EXCEPT !.tex[<<g.unit, a.texture.target>>] = 0]

\* lines 376-378: MaterialGroup.set_state.
MaterialSetState(g, a, rotation, translation) ==
    SetModelviewMatrix([g EXCEPT !.program = ProgramOf(a)], rotation, translation)

\* MaterialGroup defines no unset_state: the inherited one does nothing.
MaterialUnsetState(g, a) == g

\* The groups a decoder builds for the parts of a model: textured with one of
\* two textures (on different targets), or untextured.
DrawnGroups ==
    {TexturedGroup(1, 1, 1, 0), TexturedGroup(1, NumTextures, NumTargets, 0),
     UntexturedGroup(1, 0)}

\* A model of n parts in batch 1, each group textured or not; the GL context
\* has nothing bound and either texture unit active.
InitDraw ==
    /\ LoadIdle
    /\ \E n \in 0..MaxParts :
         /\ vertex_lists = [i \in 1..n |-> i]
         /\ groups = [i \in 1..n |-> NewGroup]
         /\ vlists = [i \in 1..n |-> [batch |-> 1, group |-> i, mode |-> GL_TRIANGLES]]
         /\ gattrs \in [1..n -> DrawnGroups]
    /\ _batch = 1
    /\ _rotation = <<0, 0, 0>>
    /\ _translation = <<0, 0, 0>>
    /\ fresh = 0
    /\ assigned = NoAssign
    /\ lastOp = NoOp
    /\ \E u \in Units : gl = GLDefault(u)
    /\ cur = 0 /\ phase = "unset"
    /\ saved = gl
    /\ lastCmp = NoCmp

\* The batch sets the state of group i before drawing its vertex lists.
SetState(i) ==
    /\ phase = "unset"
    /\ i \in 1..Len(gattrs)
    /\ saved' = gl
    /\ gl' = IF gattrs[i].variant = "textured"
             THEN TexturedSetState(gl, gattrs[i], groups[i].rotation, groups[i].translation)
             ELSE MaterialSetState(gl, gattrs[i], groups[i].rotation, groups[i].translation)
    /\ cur' = i
    /\ phase' = "set"
    /\ UNCHANGED <<gattrs, lastCmp>>
    /\ UNCHANGED <<loadVars, modelVars>>

\* The draw calls of the group's vertex lists, under the state just set.
DrawGroup ==
    /\ phase = "set"
    /\ phase' = "drawn"
    /\ UNCHANGED <<gattrs, gl, cur, saved, lastCmp>>
    /\ UNCHANGED <<loadVars, modelVars>>

\* The batch unsets the state of the group it has drawn.
UnsetState ==
    /\ phase = "drawn"
    /\ gl' = IF gattrs[cur].variant = "textured"
             THEN TexturedUnsetState(gl, gattrs[cur])
             ELSE MaterialUnsetState(gl, gattrs[cur])
    /\ phase' = "unset"
    /\ UNCHANGED <<gattrs, cur, saved, lastCmp>>
    /\ UNCHANGED <<loadVars, modelVars>>

\* Groups are drawn one after another; the model's transform is assigned
\* between the draws of groups, never inside one.
NextDraw ==
    \/ \E i \in 1..MaxParts : SetState(i)
    \/ DrawGroup
    \/ UnsetState
    \/ \E values \in RotationValues : phase = "unset" /\ SetRotation(values)
    \/ \E values \in TranslationValues : phase = "unset" /\ SetTranslation(values)

SpecDraw == InitDraw /\ [][NextDraw]_vars

\* ------------------------------------------------------------- properties of set_state
\* Rz * Ry * Rx * Translate for angles in degrees.
ComposedView(rotation, translation) ==
    MatMul(RotationMatrix(Radians(rotation[3]), "z"),
           MatMul(RotationMatrix(Radians(rotation[2]), "y"),
                  MatMul(RotationMatrix(Radians(rotation[1]), "x"),
                         FromTranslation(translation))))

\* C15: unset_state restores every global binding the group's set_state
\* changed (to what it was, or to nothing bound): the texture of its target, the
\* active texture unit, the program in use; so the next group's set_state does
\* not start from a binding the previous group left.
UnsetRestoresBindings ==
    (phase = "unset" /\ cur # 0) =>
        /\ gattrs[cur].variant = "textured" =>
              gl.tex[<<gl.unit, gattrs[cur].texture.target>>] = 0
        /\ \A b \in Units \X Targets : gl.tex[b] = saved.tex[b] \/ gl.tex[b] = 0
        /\ gl.unit = saved.unit
        /\ gl.program = saved.program \/ gl.program = NoProgram

\* The texture half of C15: after a textured group's unset_state no texture is
\* bound to any target of the active unit.
TextureUnbound ==
    phase = "unset" => \A t \in Targets : gl.tex[<<gl.unit, t>>] = 0

\* C16: set_state puts the group's program in use and writes Rz * Ry * Rx *
\* Translate of the group's rotation and translation, as they are at the call,
\* into the shared view: from set_state to unset_state the view is the drawn
\* group's own transform, also one assigned through the model since the last draw.
ViewIsGroupsOwn ==
    phase \in {"set", "drawn"} =>
        /\ gl.program = ProgramOf(gattrs[cur])
        /\ gl.view = ComposedView(groups[cur].rotation, groups[cur].translation)
        /\ groups[cur].rotation = _rotation /\ groups[cur].translation = _translation

\* The second group is drawn under a transform assigned after the first group
\* was drawn under another.
ViewIsGroupsOwnWitness ==
    /\ phase = "drawn" /\ cur = 2
    /\ groups[2].rotation = <<90, 180, 270>> /\ groups[2].translation = <<1, 2, 3>>
    /\ saved.view = ComposedView(<<90, 0, 0>>, <<0, 0, 0>>)
    /\ saved.program # NoProgram
    /\ gl.view # saved.view
    /\ gl.view = ModelViewMatrix(<<90, 180, 270>>, <<1, 2, 3>>)

\* ------------------------------------------------------------- properties of groups
\* What the hash of a group may depend on.
HashKey(g) ==
    IF g.variant = "textured" THEN <<g.parent, g.texture.id, g.texture.target>>
    ELSE <<g.parent>>

\* C14: a == b is False for any two textured or untextured groups, also with
\* the same Material and texture; the hash depends only on (parent, texture id,
\* texture target), or on the parent for the untextured variant, so groups of
\* one parent and texture have equal hashes and stay unequal.
GroupsNeverEqual ==
    lastCmp.done =>
        /\ lastCmp.eq = FALSE
        /\ (/\ gattrs[lastCmp.a].variant = gattrs[lastCmp.b].variant
            /\ HashKey(gattrs[lastCmp.a]) = HashKey(gattrs[lastCmp.b])) =>
              lastCmp.ha = lastCmp.hb

\* Two textured groups of one material, texture and parent: equal hashes, not equal.
GroupsNeverEqualWitness ==
    /\ lastCmp.done /\ lastCmp.a = 1 /\ lastCmp.b = 2
    /\ gattrs[1] = gattrs[2] /\ gattrs[1].variant = "textured"
    /\ lastCmp.ha = lastCmp.hb
    /\ lastCmp.eq = FALSE

\* ------------------------------------------------------------- properties of Model
\* C8: after any sequence of rotation and translation assignments, interleaved
\* with batch assignments and draws, every group has the model's rotation and
\* the model's translation.
GroupsFollowModelTransform ==
    \A i \in 1..Len(groups) :
        /\ groups[i].rotation = _rotation
        /\ groups[i].translation = _translation

\* Two groups, both transforms assigned, then a batch migration.
GroupsFollowWitness ==
    /\ Len(groups) = 2
    /\ _rotation = <<90, 0, 0>> /\ _translation = <<1, 2, 3>>
    /\ groups[2].rotation = <<90, 0, 0>> /\ groups[2].translation = <<1, 2, 3>>
    /\ lastOp.op = "batch" /\ ~lastOp.raised /\ lastOp.old # _batch

\* C9: assigning a Batch other than the current one migrates every vertex
\* list, with the group of its index and as triangles, from the old batch into
\* the new one; a draw afterwards is one draw_subset of the model's vertex
\* lists on the new batch and none on the old.
BatchAssignMigratesAll ==
    /\ (lastOp.op = "batch" /\ lastOp.arg # NoBatch /\ lastOp.arg # lastOp.old
          /\ ~lastOp.aborted) =>
          /\ ~lastOp.raised
          /\ _batch = lastOp.arg
          /\ Len(lastOp.migrated) = Len(vertex_lists)
          /\ \A i \in 1..Len(vertex_lists) :
                /\ lastOp.migrated[i] = [vl |-> vertex_lists[i], mode |-> GL_TRIANGLES,
                                         group |-> i, from |-> lastOp.old, to |-> lastOp.arg]
                /\ vlists[i] = [batch |-> lastOp.arg, group |-> i, mode |-> GL_TRIANGLES]
    /\ (lastOp.op = "draw" /\ assigned.new # NoBatch) =>
          lastOp.drawn = <<[batch |-> assigned.new, lists |-> vertex_lists]>>

\* C10: a Model's batch is never None, so draw always has a batch to draw against.
ModelBatchNeverNone ==
    /\ _batch # NoBatch
    /\ lastOp.op = "draw" => ~lastOp.raised

\* C11: assigning None to model.batch, in any state, allocates a fresh private
\* batch: model.batch is then a newly created Batch, not None and not the batch
\* the model had, and every (vertex list, group) pair has been migrated into it.
NoneAssignAllocatesFresh ==
    (lastOp.op = "batch" /\ lastOp.arg = NoBatch /\ ~lastOp.aborted) =>
        /\ ~lastOp.raised
        /\ _batch # NoBatch /\ _batch # lastOp.old
        /\ _batch = NumBatches + fresh
        /\ Len(lastOp.migrated) = Len(vertex_lists)
        /\ \A i \in 1..Len(vertex_lists) :
              vlists[i] = [batch |-> _batch, group |-> i, mode |-> GL_TRIANGLES]

\* C12: assigning the batch the model already has is a no-op: no migrate call
\* is issued, and batch, vertex_lists, groups, rotation and translation (and
\* where the vertex lists reside) are unchanged.
SameBatchAssignIsNoOp ==
    [][(lastOp'.op = "batch" /\ lastOp'.arg = _batch) =>
          /\ lastOp'.migrated = <<>> /\ ~lastOp'.raised
          /\ UNCHANGED <<_batch, vertex_lists, groups, _rotation, _translation,
                         vlists, fresh>>]_vars

\* A model of two parts with a rotation set is assigned the batch it is in.
SameBatchAssignWitness ==
    /\ lastOp.op = "batch" /\ lastOp.arg = lastOp.old /\ lastOp.arg # NoBatch
    /\ _batch = lastOp.arg
    /\ Len(vertex_lists) = 2 /\ _rotation = <<90, 0, 0>>
    /\ \A i \in 1..2 : vlists[i].batch = _batch

\* C13: len(vertex_lists) = len(groups) in every reachable state, so index i
\* of both lists is the same part and a completed migration pairs every
\* vertex list with the group of its index.
ListsStayParallel ==
    /\ Len(vertex_lists) = Len(groups)
    /\ Len(vlists) = Len(vertex_lists)
    /\ (lastOp.op = "batch" /\ lastOp.arg # lastOp.old /\ ~lastOp.aborted /\ ~lastOp.raised) =>
          /\ Len(lastOp.migrated) = Len(vertex_lists)
          /\ \A i \in 1..Len(vertex_lists) :
                lastOp.migrated[i].vl = vertex_lists[i] /\ lastOp.migrated[i].group = i

\* Two parts migrated into another batch after a transform assignment.
ListsParallelWitness ==
    /\ Len(vertex_lists) = 2 /\ Len(groups) = 2
    /\ lastOp.op = "batch" /\ lastOp.arg # lastOp.old /\ ~lastOp.aborted /\ ~lastOp.raised
    /\ Len(lastOp.migrated) = 2
    /\ _translation = <<1, 2, 3>>

\* C19: whenever no batch assignment is in progress, also after a migrate call
\* raised part-way through one, every vertex list of the model is in the batch
\* model.batch refers to (and in no other), so draw never asks a batch for a
\* vertex list it does not hold.
VertexListsInModelBatch ==
    /\ \A i \in 1..Len(vlists) : vlists[i].batch = _batch
    /\ \A c \in 1..Len(lastOp.drawn) :
          \A i \in 1..Len(vlists) : vlists[i].batch = lastOp.drawn[c].batch

\* ------------------------------------------------------------- properties of load
Done == pc \in {"returned", "raised"}

AllCandidatesFailed ==
    /\ pc = "raised" /\ ~explicit /\ ncand >= 1
    /\ Len(attempts) = ncand
    /\ \A i \in 1..ncand : attempts[i].out = "decode"

\* C1: when every one of the N >= 1 candidates raises a decode failure, load
\* raises the captured failure of maximum priority, and among several of that
\* priority the first in candidate order.
LoadRaisesFirstMaxPriority ==
    AllCandidatesFailed =>
        /\ result.kind = "exc" /\ result.exc.type = "decode"
        /\ result.exc.src \in 1..ncand
        /\ attempts[result.exc.src].prio = result.exc.prio
        /\ \A i \in 1..ncand : attempts[i].prio <= result.exc.prio
        /\ \A i \in 1..(result.exc.src - 1) : attempts[i].prio < result.exc.prio

\* Three candidates failed, the second and third tie on the maximum: the second is raised.
LoadTieWitness ==
    /\ AllCandidatesFailed /\ ncand = 3
    /\ attempts[1].prio = 1 /\ attempts[2].prio = 2 /\ attempts[3].prio = 2
    /\ result = Raised(DecodeExc(2, 2))

\* C2: without an explicit decoder, a successful decode is that of the first
\* candidate that succeeded: every earlier candidate failed, none is invoked
\* after it, and load returns its Model instead of raising a captured failure.
LoadReturnsFirstSuccess ==
    /\ \A i \in 1..Len(attempts) :
          (~explicit /\ attempts[i].out = "ok") =>
              /\ i = Len(attempts)
              /\ attempts[i].dec = i
              /\ \A j \in 1..(i - 1) : attempts[j].out = "decode"
              /\ pc = "returned"
              /\ result = Returned(i)
    /\ (~explicit /\ pc = "returned") =>
          /\ Len(attempts) >= 1
          /\ attempts[Len(attempts)].out = "ok"

\* [D_fail, D_succeed, D_fail2]: the second candidate's Model is returned, the third never runs.
LoadFirstSuccessWitness ==
    /\ ~explicit /\ ncand = 3 /\ pc = "returned"
    /\ Len(attempts) = 2
    /\ attempts[1].out = "decode" /\ attempts[2].out = "ok"
    /\ first_exception.type = "decode"
    /\ result = Returned(2)

\* C3: the stream handed to the decoders is closed exactly once on every exit
\* path of load and not before, and no decode attempt starts on a closed stream.
StreamClosedExactlyOnce ==
    /\ file # "none" => streams[file].closes = (IF Done THEN 1 ELSE 0)
    /\ (Done /\ file = "none") => result = Raised(IOExc)
    /\ \A i \in 1..Len(attempts) : attempts[i].closes = 0

\* The re-raise after two failed candidates, with the stream closed once.
StreamClosedWitness ==
    /\ pc = "raised" /\ ~explicit /\ Len(attempts) = 2
    /\ result.exc.type = "decode"
    /\ streams[file].closes = 1

\* C4: in the fallback loop every decode attempt that follows a failed one
\* starts at offset 0, however many bytes the failed decoder consumed.
RetryStartsAtZero ==
    \A i \in 2..Len(attempts) : attempts[i].start = 0

\* A second attempt after a decoder that read the whole file before failing.
RetryAfterReadWitness ==
    /\ Len(attempts) >= 2
    /\ attempts[1].out = "decode" /\ attempts[1].read = FileLen
    /\ attempts[2].start = 0

\* C5: every decode attempt after a failure sees the stream as the first
\* attempt saw it: the same position and the same remaining contents.
RetrySeesOriginalStart ==
    \A i \in 2..Len(attempts) :
        /\ attempts[i].start = attempts[1].start
        /\ attempts[i].saw = attempts[1].saw

\* C6: an explicit decoder is invoked exactly once and no candidate of
\* get_decoders is; what it raises reaches the caller unchanged, with no
\* rewind, retry or ranking.
ExplicitDecoderAlone ==
    explicit =>
        /\ Len(attempts) <= 1
        /\ \A i \in 1..Len(attempts) : attempts[i].dec = ExplicitDecoder
        /\ pc # "loop" /\ idx = 0 /\ first_exception = NoExc
        /\ (Done /\ file # "none") =>
              /\ Len(attempts) = 1
              /\ streams[file].pos = attempts[1].start + attempts[1].read
              /\ attempts[1].out = "ok" => result = Returned(ExplicitDecoder)
              /\ attempts[1].out = "decode" =>
                    result = Raised(DecodeExc(ExplicitDecoder, attempts[1].prio))
              /\ attempts[1].out = "other" => result = Raised(OtherExc(ExplicitDecoder))

\* An explicit decoder failed while candidates were registered: its failure is raised.
ExplicitFailureWitness ==
    /\ explicit /\ ncand >= 1 /\ pc = "raised"
    /\ Len(attempts) = 1 /\ attempts[1].out = "decode"
    /\ result = Raised(DecodeExc(ExplicitDecoder, attempts[1].prio))

\* C7: without an explicit decoder the 'No decoders are available' error is
\* raised if and only if get_decoders gave no candidate (no attempt was made);
\* after at least one attempt, all failed, a captured failure is raised.
NoDecodersIffEmpty ==
    (~explicit /\ pc = "raised" /\ file # "none") =>
        /\ (result = Raised(NoDecodersExc)) <=> (ncand = 0)
        /\ (result = Raised(NoDecodersExc)) => attempts = <<>>
        /\ (Len(attempts) >= 1 /\ \A i \in 1..Len(attempts) : attempts[i].out = "decode") =>
              \E i \in 1..Len(attempts) : result = Raised(DecodeExc(i, attempts[i].prio))

\* An empty candidate list: the error is raised with no attempt made.
NoDecodersWitness ==
    /\ ~explicit /\ pc = "raised" /\ ncand = 0
    /\ attempts = <<>>
    /\ result = Raised(NoDecodersExc)

\* The buffering half of C17: a supplied stream without seek is read to its end
\* before any attempt, and every attempt reads from the in-memory copy.
BufferedBeforeDecoding ==
    (streams.handle.given /\ ~streams.handle.seekable /\ pc # "call") =>
        /\ file = "buffer" /\ streams.buffer.exists
        /\ streams.handle.pos = Len(streams.handle.data)
        /\ streams.buffer.data =
              SubSeq(Data, FileLen - Len(streams.buffer.data) + 1, FileLen)
        /\ \A i \in 1..Len(attempts) :
              attempts[i].saw = SubSeq(streams.buffer.data, attempts[i].start + 1,
                                       Len(streams.buffer.data))

\* C17: a supplied file without seek is read whole, once, before the first
\* decode attempt, into an in-memory stream all decoders read from; and the
\* supplied file handle is closed before load returns.
BufferedAndHandleClosed ==
    /\ BufferedBeforeDecoding
    /\ (streams.handle.given /\ ~streams.handle.seekable /\ Done) =>
          streams.handle.closes >= 1

\* C18: only decode failures are swallowed and ranked. Any other error of a
\* candidate is raised as it is at once: no later candidate runs, no captured
\* failure replaces it, and the stream is closed. A failing open propagates
\* before any decoder runs.
OtherErrorsPropagate ==
    /\ \A i \in 1..Len(attempts) :
          (~explicit /\ attempts[i].out = "other") =>
              /\ i = Len(attempts)
              /\ pc = "raised"
              /\ result = Raised(OtherExc(attempts[i].dec))
              /\ streams[file].closes = 1
    /\ (openFails /\ pc # "call") =>
          /\ pc = "raised" /\ result = Raised(IOExc)
          /\ attempts = <<>> /\ file = "none"
    /\ (~explicit /\ pc = "raised" /\ result.exc.type = "decode") =>
          \A i \in 1..Len(attempts) : attempts[i].out = "decode"

\* A decode failure was captured, then the second candidate raised another error.
OtherErrorWitness ==
    /\ ~explicit /\ ncand = 3 /\ pc = "raised"
    /\ Len(attempts) = 2
    /\ attempts[1].out = "decode" /\ attempts[2].out = "other"
    /\ first_exception = DecodeExc(1, attempts[1].prio)
    /\ result = Raised(OtherExc(2))
    /\ streams[file].closes = 1

CandidatesInOrder ==
    ~explicit =>
        /\ Len(attempts) <= ncand
        /\ \A i \in 1..Len(attempts) : attempts[i].dec = i
        /\ pc = "loop" => idx = Len(attempts) + 1

\* C20: without an explicit decoder the candidates are invoked in the order
\* get_decoders gave, each at most once and none skipped before the first
\* success; with N candidates load ends, by return or raise, after at most N
\* decode attempts.
LoadTerminatesInOrder == [](CandidatesInOrder) /\ <>Done

\* Three candidates, each invoked once in order, and load has ended.
AllCandidatesTriedWitness ==
    /\ ~explicit /\ ncand = 3 /\ Done
    /\ Len(attempts) = 3
    /\ \A i \in 1..3 : attempts[i].dec = i

====
